---- MODULE Spec2Model ----
(***************************************************************************)
(* Widget store (src/src/core/window.rs) and event dispatch loop           *)
(* (src/src/core/main.rs, Pushrod::run) of rust-pushrod.                   *)
(*                                                                         *)
(* The store is a Vec<WidgetContainer>; position i of the Vec is element   *)
(* i+1 of the sequence `widgets`.  The run loop is modelled one handler    *)
(* per step: window.next(), then the mouse_cursor, mouse_scroll, resize    *)
(* and render closures in the order in which run() calls them.             *)
(***************************************************************************)
EXTENDS Integers, Sequences, FiniteSets, TLC

VARIABLES
    widgets,                  \* PushrodWindow.widgets
    calls,                    \* add_widget / add_widget_to_parent calls made so far, with their return values
    result,                   \* last query made from outside the loop on the store as it is now
    pc,                       \* position of the program
    last_widget_id,           \* local of run()
    previous_mouse_position,  \* local of run()
    event,                    \* what the accessors of the current event have yielded so far
    log,                      \* widget callbacks dispatched in the current tick, in order
    diag,                     \* the "Widget IDs:" line printed in the current tick
    hovered,                  \* widgets that received mouse_entered and no mouse_exited since
    stream                    \* the event source of window.next() and how far the loop has consumed it

vars == <<widgets, calls, result, pc, last_widget_id, previous_mouse_position,
          event, log, diag, hovered, stream>>

\* an absent value is the empty sequence, a present value v is <<v>>
None == << >>
Some(v) == << v >>

\* ---------------------------------------------------------------- bounds
MaxWidgets == 3        \* store length reached by the set-up phase of Spec
MaxStoreLen == 8       \* store length reached by SpecStore
MaxEvents == 3         \* longest event stream of SpecFinite

\* ---------------------------------------------------------------- geometry
Pt(x, y) == [x |-> x, y |-> y]
Sz(w, h) == [w |-> w, h |-> h]

make_origin_point == Pt(0, 0)

BaseWidth == 800
BaseHeight == 600

\* origin of a BaseWidget on which no origin was set
base_origin == make_origin_point

\* base_widget without the set_size call: the base widget keeps an empty size
base_widget_unsized == [origin |-> base_origin, size |-> Sz(0, 0),
                        invalidated |-> TRUE]

\* BaseWidget::new() followed by set_size(800, 600)
base_widget == [origin |-> base_origin, size |-> Sz(BaseWidth, BaseHeight),
                invalidated |-> TRUE]

\* widgets handed to add_widget / add_widget_to_parent in Spec
Widgets ==
    { [origin |-> Pt(0, 0),   size |-> Sz(100, 100), invalidated |-> d] : d \in BOOLEAN } \cup
    { [origin |-> Pt(50, 50), size |-> Sz(100, 100), invalidated |-> d] : d \in BOOLEAN }

\* widgets handed to add_widget / add_widget_to_parent in SpecStore
StoreWidgets == { [origin |-> Pt(0, 0), size |-> Sz(100, 100), invalidated |-> TRUE] }

\* parent ids handed to add_widget_to_parent (9 names no widget of any store of Spec;
\* 3 names no widget of a store of SpecStore shorter than 4)
ParentIds == {0, 1, 9}
StoreParentIds == {0, 3}

\* points reported by cursor-move events
CursorPoints == { Pt(0, 0), Pt(49, 50), Pt(50, 50), Pt(150, 150), Pt(151, 50),
                  Pt(500, 500), Pt(801, 50) }

\* points reported by scroll events
ScrollPoints == { Pt(50, 50), Pt(801, 50) }

\* ---------------------------------------------------------------- store
new_widgets == << [widget_id |-> 0, parent_id |-> 0, widget |-> base_widget] >>

\* push_container taking the length after the push as the id
push_container_len_after(op, widget, parent_id) ==
    LET widget_size == Len(widgets) + 1 IN
    /\ widgets' = Append(widgets, [widget_id |-> widget_size,
                                   parent_id |-> parent_id,
                                   widget    |-> widget])
    /\ calls' = Append(calls, [op |-> op, parent_id |-> parent_id, ret |-> widget_size])

\* push_container inserting the container at the front of the Vec
push_container_front(op, widget, parent_id) ==
    LET widget_size == Len(widgets) IN
    /\ widgets' = << [widget_id |-> widget_size,
                      parent_id |-> parent_id,
                      widget    |-> widget] >> \o widgets
    /\ calls' = Append(calls, [op |-> op, parent_id |-> parent_id, ret |-> widget_size])

\* body shared by add_widget and add_widget_to_parent: push, return old length
push_container(op, widget, parent_id) ==
    LET widget_size == Len(widgets) IN
    /\ widgets' = Append(widgets, [widget_id |-> widget_size,
                                   parent_id |-> parent_id,
                                   widget    |-> widget])
    /\ calls' = Append(calls, [op |-> op, parent_id |-> parent_id, ret |-> widget_size])

add_widget(widget) == push_container("add_widget", widget, 0)

add_widget_to_parent(widget, parent_id) ==
    push_container("add_widget_to_parent", widget, parent_id)

\* get_parent_of reading the container before the one asked for
get_parent_of_off_by_one(ws, widget_id) ==
    IF widget_id <= 0 THEN 0 ELSE ws[widget_id].parent_id

get_parent_of(ws, widget_id) ==
    IF widget_id <= 0 THEN 0 ELSE ws[widget_id + 1].parent_id

\* get_children_of collecting parent_id instead of widget_id
get_children_of_maps_parent(ws, parent_id) ==
    LET kept == SelectSeq(ws, LAMBDA x : x.parent_id = parent_id)
    IN  [i \in 1..Len(kept) |-> kept[i].parent_id]

get_children_of(ws, parent_id) ==
    LET kept == SelectSeq(ws, LAMBDA x : x.parent_id = parent_id)
    IN  [i \in 1..Len(kept) |-> kept[i].widget_id]

\* in_bounds with the upper bounds exclusive
in_bounds_exclusive(obj, point) ==
    /\ point.x >= obj.widget.origin.x
    /\ point.x < obj.widget.origin.x + obj.widget.size.w
    /\ point.y >= obj.widget.origin.y
    /\ point.y < obj.widget.origin.y + obj.widget.size.h

\* the condition of the `if` in the hit-test loop
in_bounds(obj, point) ==
    /\ point.x >= obj.widget.origin.x
    /\ point.x <= obj.widget.origin.x + obj.widget.size.w
    /\ point.y >= obj.widget.origin.y
    /\ point.y <= obj.widget.origin.y + obj.widget.size.h

\* hit_scan keeping the first match instead of the last
RECURSIVE hit_scan_first(_, _, _, _)
hit_scan_first(ws, point, pos, found_id) ==
    IF pos >= Len(ws) THEN found_id
    ELSE hit_scan_first(ws, point, pos + 1,
                        IF in_bounds(ws[pos + 1], point) /\ found_id = -1
                        THEN pos ELSE found_id)

RECURSIVE hit_scan(_, _, _, _)
hit_scan(ws, point, pos, found_id) ==
    IF pos >= Len(ws) THEN found_id
    ELSE hit_scan(ws, point, pos + 1,
                  IF in_bounds(ws[pos + 1], point) THEN pos ELSE found_id)

get_widget_id_for_point(ws, point) == hit_scan(ws, point, 0, -1)

\* invalidate_all_widgets that leaves the base widget out
invalidate_all_widgets_skips_base(ws) ==
    [i \in 1..Len(ws) |->
        IF i = 1 THEN ws[i] ELSE [ws[i] EXCEPT !.widget.invalidated = TRUE]]

invalidate_all_widgets(ws) ==
    [i \in 1..Len(ws) |-> [ws[i] EXCEPT !.widget.invalidated = TRUE]]

\* ---------------------------------------------------------------- callbacks
mouse_moved_for_id(id, point)    == [cb |-> "mouse_moved", id |-> id, point |-> Some(point)]
mouse_entered_for_id(id)         == [cb |-> "mouse_entered", id |-> id, point |-> None]
mouse_exited_for_id(id)          == [cb |-> "mouse_exited", id |-> id, point |-> None]
mouse_scrolled_for_id(id, point) == [cb |-> "mouse_scrolled", id |-> id, point |-> Some(point)]

\* ---------------------------------------------------------------- initial state
\* cursor, scroll, resize, render: what the event carries; current_widget_id:
\* the hit test made for it; dirty_at_draw: the widgets invalidated when its
\* render pass called draw; drawn: the widgets that pass drew
NoEvent == [cursor |-> None, scroll |-> None, resize |-> FALSE, render |-> FALSE,
            current_widget_id |-> None, dirty_at_draw |-> {}, drawn |-> {}]
NoResult == [op |-> "none", arg |-> 0, value |-> 0]

\* left: events the source still holds (-1: a source of unknown length, which
\* may yield an event or end at any call and is not counted); total, pulled,
\* handled: events the source held at first, events window.next() has yielded,
\* events whose iteration has ended; closures: the closures that have run for
\* the current event
source_of(n) == [left |-> n, total |-> n, pulled |-> 0, handled |-> 0, closures |-> << >>]
unknown_source == source_of(-1)

\* window.next() can yield Some(event) / can yield None
source_has_next(s) == s.left # 0
source_is_empty(s) == s.left <= 0

\* pull with the event left in the source
pull_keeps_event(s) ==
    [s EXCEPT !.pulled = IF s.left > 0 THEN @ + 1 ELSE @,
              !.closures = << >>]

\* window.next() yields the next event of the source
pull(s) ==
    [s EXCEPT !.left = IF @ > 0 THEN @ - 1 ELSE @,
              !.pulled = IF s.left > 0 THEN @ + 1 ELSE @,
              !.closures = << >>]

Init ==
    /\ widgets = new_widgets
    /\ calls = << >>
    /\ result = NoResult
    /\ pc = "setup"
    /\ last_widget_id = -1
    /\ previous_mouse_position = make_origin_point
    /\ event = NoEvent
    /\ log = << >>
    /\ diag = None
    /\ hovered = {}
    /\ stream = unknown_source

loop_vars == <<pc, last_widget_id, previous_mouse_position, event, log, diag, hovered,
               stream>>

\* handler_order with the scroll closure called before the cursor closure
handler_order_scroll_first == << "mouse_scroll", "mouse_cursor", "resize", "render" >>

\* the closures of one iteration of the loop, in the order run() calls them
handler_order == << "mouse_cursor", "mouse_scroll", "resize", "render" >>

\* where the program goes when the closure h returns
after(h) ==
    LET i == CHOOSE k \in 1..Len(handler_order) : handler_order[k] = h
    IN  IF i = Len(handler_order) THEN "next" ELSE handler_order[i + 1]

\* the closure h has returned; after the last one the iteration has ended
ran(h, s) ==
    [s EXCEPT !.closures = Append(@, h),
              !.handled = IF after(h) = "next" /\ s.left >= 0 THEN @ + 1 ELSE @]

\* ---------------------------------------------------------------- set-up
AddWidget ==
    /\ pc = "setup"
    /\ Len(widgets) < MaxWidgets
    /\ \E w \in Widgets : add_widget(w)
    /\ UNCHANGED <<result, loop_vars>>

AddWidgetToParent ==
    /\ pc = "setup"
    /\ Len(widgets) < MaxWidgets
    /\ \E w \in Widgets, p \in ParentIds : add_widget_to_parent(w, p)
    /\ UNCHANGED <<result, loop_vars>>

\* ---------------------------------------------------------------- run loop
Run ==
    /\ pc = "setup"
    /\ pc' = "next"
    /\ last_widget_id' = -1
    /\ previous_mouse_position' = make_origin_point
    /\ UNCHANGED <<widgets, calls, result, event, log, diag, hovered, stream>>

\* window.next() yields Some(event)
NextEvent ==
    /\ pc = "next"
    /\ source_has_next(stream)
    /\ stream' = pull(stream)
    /\ pc' = handler_order[1]
    /\ event' = NoEvent
    /\ log' = << >>
    /\ diag' = None
    /\ UNCHANGED <<widgets, calls, result, last_widget_id, previous_mouse_position, hovered>>

\* window.next() yields None
Exhausted ==
    /\ pc = "next"
    /\ source_is_empty(stream)
    /\ pc' = "done"
    /\ UNCHANGED <<widgets, calls, result, last_widget_id, previous_mouse_position,
                   event, log, diag, hovered, stream>>

\* point_differs with the second comparison made against the wrong coordinate
point_differs_wrong_field(mouse_point, previous) ==
    mouse_point.x # previous.x \/ mouse_point.y # previous.x

\* the guard of the closure given to event.mouse_cursor
point_differs(mouse_point, previous) ==
    mouse_point.x # previous.x \/ mouse_point.y # previous.y

\* transition_callbacks with the entry dispatched before the exit
transition_callbacks_enter_first(last, current) ==
    (IF current # -1 THEN << mouse_entered_for_id(current) >> ELSE << >>) \o
    (IF last # -1 THEN << mouse_exited_for_id(last) >> ELSE << >>)

\* transition_callbacks without the checks against the sentinel
transition_callbacks_unguarded(last, current) ==
    << mouse_exited_for_id(last), mouse_entered_for_id(current) >>

\* transition_callbacks with the exit sent to the widget being entered
transition_callbacks_exits_current(last, current) ==
    (IF last # -1 THEN << mouse_exited_for_id(current) >> ELSE << >>) \o
    (IF current # -1 THEN << mouse_entered_for_id(current) >> ELSE << >>)

\* the callbacks of the `if current_widget_id != last_widget_id` block, in
\* dispatch order: the exit of the old widget, then the entry of the new one
transition_callbacks(last, current) ==
    (IF last # -1 THEN << mouse_exited_for_id(last) >> ELSE << >>) \o
    (IF current # -1 THEN << mouse_entered_for_id(current) >> ELSE << >>)

\* moved_callbacks without the check against the sentinel
moved_callbacks_unguarded(current, point) ==
    << mouse_moved_for_id(current, point) >>

\* the "Handles the mouse move callback" block
moved_callbacks(current, point) ==
    IF current # -1 THEN << mouse_moved_for_id(current, point) >> ELSE << >>

\* the widgets left hovered when the callbacks cbs reach the widgets of h
RECURSIVE hover_after(_, _)
hover_after(h, cbs) ==
    IF cbs = << >> THEN h
    ELSE hover_after(IF Head(cbs).cb = "mouse_entered" THEN h \cup {Head(cbs).id}
                     ELSE IF Head(cbs).cb = "mouse_exited" THEN h \ {Head(cbs).id}
                     ELSE h,
                     Tail(cbs))

\* body of the closure given to event.mouse_cursor
mouse_cursor(mouse_point) ==
    IF point_differs(mouse_point, previous_mouse_position)
    THEN
        LET current_widget_id == get_widget_id_for_point(widgets, mouse_point)
            current_parent_for_widget == get_parent_of(widgets, current_widget_id)
            moved == moved_callbacks(current_widget_id, mouse_point)
            transition == transition_callbacks(last_widget_id, current_widget_id)
        IN
        /\ previous_mouse_position' = mouse_point
        /\ event' = [event EXCEPT !.cursor = Some(mouse_point),
                                  !.current_widget_id = Some(current_widget_id)]
        /\ IF current_widget_id # last_widget_id
           THEN /\ last_widget_id' = current_widget_id
                /\ log' = log \o moved \o transition
                /\ hovered' = hover_after(hovered, transition)
                /\ diag' = Some([current  |-> current_widget_id,
                                 parent   |-> current_parent_for_widget,
                                 children |-> get_children_of(widgets, current_widget_id)])
           ELSE /\ log' = log \o moved
                /\ UNCHANGED <<last_widget_id, diag, hovered>>
    ELSE /\ event' = [event EXCEPT !.cursor = Some(mouse_point)]
         /\ UNCHANGED <<previous_mouse_position, last_widget_id, log, diag, hovered>>

MouseCursor ==
    /\ pc = "mouse_cursor"
    /\ pc' = after("mouse_cursor")
    /\ stream' = ran("mouse_cursor", stream)
    /\ \/ \E c \in CursorPoints : mouse_cursor(c)
       \/ /\ event' = [event EXCEPT !.cursor = None]
          /\ UNCHANGED <<previous_mouse_position, last_widget_id, log, diag, hovered>>
    /\ UNCHANGED <<widgets, calls, result>>

\* mouse_scroll aimed at the widget under the scroll event's own point
mouse_scroll_hit_test(mouse_point) ==
    LET target == get_widget_id_for_point(widgets, mouse_point) IN
    IF target # -1
    THEN log' = Append(log, mouse_scrolled_for_id(target, mouse_point))
    ELSE UNCHANGED log

\* mouse_scroll without the check against the sentinel
mouse_scroll_unguarded(mouse_point) ==
    log' = Append(log, mouse_scrolled_for_id(last_widget_id, mouse_point))

\* body of the closure given to event.mouse_scroll
mouse_scroll(mouse_point) ==
    IF last_widget_id # -1
    THEN log' = Append(log, mouse_scrolled_for_id(last_widget_id, mouse_point))
    ELSE UNCHANGED log

\* MouseScroll that also moves last_widget_id to the widget under the scroll point
MouseScroll_retargets ==
    /\ pc = "mouse_scroll"
    /\ pc' = after("mouse_scroll")
    /\ stream' = ran("mouse_scroll", stream)
    /\ \/ \E s \in ScrollPoints :
             /\ event' = [event EXCEPT !.scroll = Some(s)]
             /\ mouse_scroll(s)
             /\ last_widget_id' = get_widget_id_for_point(widgets, s)
       \/ /\ event' = [event EXCEPT !.scroll = None]
          /\ UNCHANGED <<log, last_widget_id>>
    /\ UNCHANGED <<widgets, calls, result, previous_mouse_position, diag, hovered>>

MouseScroll ==
    /\ pc = "mouse_scroll"
    /\ pc' = after("mouse_scroll")
    /\ stream' = ran("mouse_scroll", stream)
    /\ \/ \E s \in ScrollPoints :
             /\ event' = [event EXCEPT !.scroll = Some(s)]
             /\ mouse_scroll(s)
       \/ /\ event' = [event EXCEPT !.scroll = None]
          /\ UNCHANGED log
    /\ UNCHANGED <<widgets, calls, result, last_widget_id, previous_mouse_position, diag,
                   hovered>>

Resize ==
    /\ pc = "resize"
    /\ pc' = after("resize")
    /\ stream' = ran("resize", stream)
    /\ \E r \in BOOLEAN :
          /\ event' = [event EXCEPT !.resize = r]
          /\ IF r THEN widgets' = invalidate_all_widgets(widgets) ELSE UNCHANGED widgets
    /\ UNCHANGED <<calls, result, last_widget_id, previous_mouse_position, log, diag,
                   hovered>>

\* ids that a traversal from root_id along the parent links reaches
RECURSIVE reach(_, _, _)
reach(ws, seen, n) ==
    IF n = 0 THEN seen
    ELSE reach(ws, seen \cup { i \in 0..(Len(ws) - 1) : ws[i + 1].parent_id \in seen }, n - 1)

\* WidgetStore::draw(root_id, ..): the widgets reached from root_id that are
\* invalidated are drawn, and drawing clears their flag
draw_set(ws, root_id) ==
    { i \in reach(ws, {root_id}, Len(ws)) : ws[i + 1].widget.invalidated }

draw(ws, root_id) ==
    [i \in 1..Len(ws) |->
        IF (i - 1) \in draw_set(ws, root_id)
        THEN [ws[i] EXCEPT !.widget.invalidated = FALSE] ELSE ws[i]]

\* ids of the widgets whose invalidated flag is set
invalidated_ids(ws) == { i \in 0..(Len(ws) - 1) : ws[i + 1].widget.invalidated }

\* handle_render without the invalidation that follows the draw
handle_render_no_invalidate(ws) == draw(ws, 0)

\* body of the closure given to event.render: handle_draw, then invalidate
handle_render(ws) == invalidate_all_widgets(draw(ws, 0))

Render ==
    /\ pc = "render"
    /\ pc' = after("render")
    /\ stream' = ran("render", stream)
    /\ \E r \in BOOLEAN :
          IF r
          THEN /\ event' = [event EXCEPT !.render = TRUE,
                                         !.dirty_at_draw = invalidated_ids(widgets),
                                         !.drawn = draw_set(widgets, 0)]
               /\ widgets' = handle_render(widgets)
          ELSE /\ event' = [event EXCEPT !.render = FALSE]
               /\ UNCHANGED widgets
    /\ UNCHANGED <<calls, result, last_widget_id, previous_mouse_position, log, diag,
                   hovered>>

Next ==
    \/ AddWidget
    \/ AddWidgetToParent
    \/ Run
    \/ NextEvent
    \/ Exhausted
    \/ MouseCursor
    \/ MouseScroll
    \/ Resize
    \/ Render

Spec == Init /\ [][Next]_vars

\* ---------------------------------------------------------------- finite stream
\* run() on the store as constructed, over a source holding 0..MaxEvents events
InitFinite ==
    /\ widgets = new_widgets
    /\ calls = << >>
    /\ result = NoResult
    /\ pc = "setup"
    /\ last_widget_id = -1
    /\ previous_mouse_position = make_origin_point
    /\ event = NoEvent
    /\ log = << >>
    /\ diag = None
    /\ hovered = {}
    /\ \E n \in 0..MaxEvents : stream = source_of(n)

NextFinite ==
    \/ Run
    \/ NextEvent
    \/ Exhausted
    \/ MouseCursor
    \/ MouseScroll
    \/ Resize
    \/ Render

\* the loop runs on one thread that nothing suspends: a step that can be
\* taken is taken
SpecFinite == InitFinite /\ [][NextFinite]_vars /\ WF_vars(NextFinite)

\* ---------------------------------------------------------------- store alone
StoreAddWidget ==
    /\ Len(widgets) < MaxStoreLen
    /\ \E w \in StoreWidgets : add_widget(w)
    /\ result' = NoResult
    /\ UNCHANGED loop_vars

StoreAddWidgetToParent ==
    /\ Len(widgets) < MaxStoreLen
    /\ \E w \in StoreWidgets, p \in StoreParentIds : add_widget_to_parent(w, p)
    /\ result' = NoResult
    /\ UNCHANGED loop_vars

\* a caller asks for the parent of an id the store holds, or of 0 or -1
StoreGetParentOf ==
    /\ \E id \in -1..(Len(widgets) - 1) :
          result' = [op |-> "get_parent_of", arg |-> id,
                     value |-> get_parent_of(widgets, id)]
    /\ UNCHANGED <<widgets, calls, loop_vars>>

StoreGetChildrenOf ==
    /\ \E p \in -1..Len(widgets) :
          result' = [op |-> "get_children_of", arg |-> p,
                     value |-> get_children_of(widgets, p)]
    /\ UNCHANGED <<widgets, calls, loop_vars>>

NextStore ==
    \/ StoreAddWidget
    \/ StoreAddWidgetToParent
    \/ StoreGetParentOf
    \/ StoreGetChildrenOf

SpecStore == Init /\ [][NextStore]_vars


\* ================================================================ properties

\* the entered / exited callbacks of a dispatch trace, in order
EnterExit(l) == SelectSeq(l, LAMBDA e : e.cb \in {"mouse_entered", "mouse_exited"})
CountOf(l, cb) == Len(SelectSeq(l, LAMBDA e : e.cb = cb))

\* C1: when last_widget_id is a widget A and a cursor-move event arrives whose
\* point hit-tests to a different widget B, the tick dispatches exactly
\* mouse_exited_for_id(A) and then mouse_entered_for_id(B); no later handler of
\* the tick dispatches another entered / exited callback.
C1_ExitThenEnter ==
    [][ /\ ( /\ pc = "mouse_cursor"
             /\ event'.cursor # None
             /\ last_widget_id # -1
             /\ get_widget_id_for_point(widgets, event'.cursor[1]) # -1
             /\ get_widget_id_for_point(widgets, event'.cursor[1]) # last_widget_id )
           => EnterExit(log') =
                 << mouse_exited_for_id(last_widget_id),
                    mouse_entered_for_id(get_widget_id_for_point(widgets, event'.cursor[1])) >>
        /\ (pc \in {"mouse_scroll", "resize", "render"})
           => EnterExit(log') = EnterExit(log)
      ]_vars

\* a tick moved the pointer from one widget straight to another one
C1_Witness ==
    /\ pc = "mouse_scroll"
    /\ Len(EnterExit(log)) = 2
    /\ log[Len(log) - 1].cb = "mouse_exited"
    /\ log[Len(log)].cb = "mouse_entered"
    /\ log[Len(log) - 1].id # log[Len(log)].id
    /\ log[Len(log)].id = last_widget_id

\* C2: a tick dispatches at most one mouse_exited_for_id and at most one
\* mouse_entered_for_id, and neither is ever dispatched with the sentinel -1.
C2_AtMostOneEach ==
    /\ CountOf(log, "mouse_exited") <= 1
    /\ CountOf(log, "mouse_entered") <= 1
    /\ \A i \in 1..Len(log) :
          log[i].cb \in {"mouse_entered", "mouse_exited"} => log[i].id # -1

\* a completed tick that dispatched one exit and one entry
C2_Witness ==
    /\ pc = "next"
    /\ CountOf(log, "mouse_exited") = 1
    /\ CountOf(log, "mouse_entered") = 1

\* C3: a cursor-move event at previous_mouse_position dispatches nothing and
\* leaves last_widget_id and previous_mouse_position unchanged.
C3_SamePointIsIgnored ==
    [][ ( /\ pc = "mouse_cursor"
          /\ event'.cursor = Some(previous_mouse_position) )
        => /\ log' = log
           /\ last_widget_id' = last_widget_id
           /\ previous_mouse_position' = previous_mouse_position
      ]_vars

\* the pointer rests on a widget and the event repeated its point: nothing was
\* dispatched (a move to a new point over a widget dispatches mouse_moved)
C3_Witness ==
    /\ pc = "mouse_scroll"
    /\ event.cursor = Some(previous_mouse_position)
    /\ last_widget_id # -1
    /\ log = << >>

\* C4: a scroll event dispatches mouse_scrolled_for_id(last_widget_id, point)
\* exactly when last_widget_id # -1 and nothing otherwise; the target is
\* last_widget_id, not the widget under the scroll event's point.
C4_ScrollTargetsLastWidget ==
    [][ (pc = "mouse_scroll")
        => IF event'.scroll # None /\ last_widget_id # -1
           THEN log' = Append(log, mouse_scrolled_for_id(last_widget_id, event'.scroll[1]))
           ELSE log' = log
      ]_vars

\* a scroll was dispatched to last_widget_id although another widget is under
\* the scroll event's point
C4_Witness ==
    /\ pc = "resize"
    /\ event.scroll # None
    /\ log # << >>
    /\ log[Len(log)] = mouse_scrolled_for_id(last_widget_id, event.scroll[1])
    /\ get_widget_id_for_point(widgets, event.scroll[1]) # last_widget_id

\* ---------------------------------------------------------------- scenario of C5
\* the store as constructed plus widgets 1 and 2, widget 2 covering (0,0)-(100,100)
ScenarioStore ==
    /\ Len(widgets) = 3
    /\ widgets[3].widget.origin = Pt(0, 0)
    /\ widgets[3].widget.size = Sz(100, 100)

\* moving to (50,50) from elsewhere enters widget 2
ScenarioEnter ==
    ( /\ pc = "mouse_cursor"
      /\ ScenarioStore
      /\ last_widget_id # 2
      /\ previous_mouse_position # Pt(50, 50)
      /\ event'.cursor = Some(Pt(50, 50)) )
    => /\ last_widget_id' = 2
       /\ CountOf(SelectSeq(log', LAMBDA e : e.id = 2), "mouse_entered") = 1

\* the pointer is on widget 2 at (50,50) and the event moves it to (500,500)
ScenarioLeaveStep ==
    /\ pc = "mouse_cursor"
    /\ ScenarioStore
    /\ last_widget_id = 2
    /\ previous_mouse_position = Pt(50, 50)
    /\ event'.cursor = Some(Pt(500, 500))

\* the pointer is at (500,500) and the event carries a scroll
ScenarioScrollStep ==
    /\ pc = "mouse_scroll"
    /\ ScenarioStore
    /\ previous_mouse_position = Pt(500, 500)
    /\ event'.scroll # None

\* C5 as stated: the move to (500,500) hit-tests to -1, sets last_widget_id to
\* -1 and fires mouse_exited_for_id(2); the scroll that follows is dispatched
\* to no widget.
C5_AsStated ==
    [][ /\ ScenarioEnter
        /\ ScenarioLeaveStep
           => /\ event'.current_widget_id = Some(-1)
              /\ last_widget_id' = -1
              /\ EnterExit(log') = << mouse_exited_for_id(2) >>
        /\ ScenarioScrollStep
           => CountOf(log', "mouse_scrolled") = 0
      ]_vars

\* C5 (amended): in the scenario the move to (50,50) fires
\* mouse_entered_for_id(2); the move to (500,500) hit-tests to the base widget
\* 0, sets last_widget_id to 0 and fires mouse_exited_for_id(2) and then
\* mouse_entered_for_id(0); the scroll that follows is dispatched to widget 0
\* and not to widget 2.
C5_ScrollGoesToBaseWidget ==
    [][ /\ ScenarioEnter
        /\ ScenarioLeaveStep
           => /\ event'.current_widget_id = Some(0)
              /\ last_widget_id' = 0
              /\ EnterExit(log') = << mouse_exited_for_id(2), mouse_entered_for_id(0) >>
        /\ ScenarioScrollStep
           => /\ log' = Append(log, mouse_scrolled_for_id(0, event'.scroll[1]))
              /\ \A i \in 1..Len(log') : log'[i].cb = "mouse_scrolled" => log'[i].id # 2
      ]_vars

\* the tick that left widget 2 for (500,500) also carried a scroll
C5_Witness ==
    /\ pc = "resize"
    /\ ScenarioStore
    /\ previous_mouse_position = Pt(500, 500)
    /\ event.cursor = Some(Pt(500, 500))
    /\ event.scroll # None
    /\ \E i \in 1..Len(log) : log[i] = mouse_exited_for_id(2)
    /\ log[Len(log)].cb = "mouse_scrolled"

\* ---------------------------------------------------------------- hit test
\* the point lies in the closed rectangle of the container
Contains(obj, p) ==
    /\ p.x \in obj.widget.origin.x .. (obj.widget.origin.x + obj.widget.size.w)
    /\ p.y \in obj.widget.origin.y .. (obj.widget.origin.y + obj.widget.size.h)

Matching(ws, p) == { i \in 0..(Len(ws) - 1) : Contains(ws[i + 1], p) }

Greatest(S) == CHOOSE m \in S : \A k \in S : k <= m

\* a hit test has been made for the current event
HitTested == event.cursor # None /\ event.current_widget_id # None

\* C6: the hit test returns the greatest id among the widgets whose bounds
\* contain the point (id 0 included) and -1 exactly when there is none.
C6_LastMatchWins ==
    HitTested =>
        LET p == event.cursor[1]
            r == event.current_widget_id[1]
        IN  /\ (r = -1) <=> (Matching(widgets, p) = {})
            /\ Matching(widgets, p) # {} => r = Greatest(Matching(widgets, p))

\* two added widgets, A inserted before B, both contain the point: B is hit
C6_Witness ==
    /\ HitTested
    /\ Len(widgets) >= 3
    /\ {1, 2} \subseteq Matching(widgets, event.cursor[1])
    /\ event.current_widget_id = Some(Greatest(Matching(widgets, event.cursor[1])))
    /\ event.current_widget_id[1] >= 2

\* C7: a widget matches a point exactly when the point is within its bounds,
\* both ends inclusive: the hit test never returns a widget that does not
\* contain the point and never returns an id below a widget that does; the
\* corners (ox,oy) and (ox+w,oy+h) match, (ox-1,oy) and (ox+w+1,oy) do not.
C7_InclusiveBounds ==
    HitTested =>
        LET p == event.cursor[1]
            r == event.current_widget_id[1]
        IN  /\ r # -1 => Contains(widgets[r + 1], p)
            /\ \A i \in 0..(Len(widgets) - 1) :
                  LET o == widgets[i + 1].widget.origin
                      z == widgets[i + 1].widget.size
                  IN  /\ Contains(widgets[i + 1], p) => r >= i
                      /\ p = o => r >= i
                      /\ p = Pt(o.x + z.w, o.y + z.h) => r >= i
                      /\ p = Pt(o.x - 1, o.y) => r # i
                      /\ p = Pt(o.x + z.w + 1, o.y) => r # i

\* the point is the far corner (ox+w, oy+h) of the widget the hit test returned
C7_Witness ==
    /\ HitTested
    /\ event.current_widget_id[1] > 0
    /\ LET w == widgets[event.current_widget_id[1] + 1].widget
       IN  event.cursor[1] = Pt(w.origin.x + w.size.w, w.origin.y + w.size.h)

\* ---------------------------------------------------------------- store
\* C8: the container at position i has widget_id i; the k-th insertion returns
\* the store length before it, so the returned ids are 1, 2, 3, ... and none
\* is returned twice.
C8_IdsArePositions ==
    /\ \A i \in 1..Len(widgets) : widgets[i].widget_id = i - 1
    /\ Len(widgets) = Len(calls) + 1
    /\ \A k \in 1..Len(calls) : calls[k].ret = k
    /\ \A j, k \in 1..Len(calls) : j # k => calls[j].ret # calls[k].ret

\* both insertion operations have been used, three insertions in all
C8_Witness ==
    /\ Len(calls) >= 3
    /\ \E j, k \in 1..Len(calls) :
          calls[j].op = "add_widget" /\ calls[k].op = "add_widget_to_parent"
    /\ widgets[Len(widgets)].widget_id = 3

\* C9: container 0 exists with parent_id 0; get_parent_of(id) is 0 for every
\* id <= 0 (the sentinel -1 included) and, for 0 < id < length, the parent_id
\* given when id was inserted.
C9_ParentOf ==
    /\ Len(widgets) >= 1
    /\ widgets[1].widget_id = 0
    /\ widgets[1].parent_id = 0
    /\ result.op = "get_parent_of" =>
          /\ result.arg <= 0 => result.value = 0
          /\ result.arg > 0 => result.value = calls[result.arg].parent_id

\* the parent of the sentinel was asked for in a store that holds a widget
\* whose parent is not 0
C9_Witness ==
    /\ result.op = "get_parent_of"
    /\ result.arg = -1
    /\ result.value = 0
    /\ \E i \in 1..Len(widgets) : widgets[i].parent_id # 0

\* ids of the containers inserted with, or constructed with, parent p
ChildIds(p) ==
    { k \in 1..Len(calls) : calls[k].parent_id = p } \cup (IF p = 0 THEN {0} ELSE {})

\* C10: get_children_of(p) holds exactly the ids of the containers whose
\* parent_id is p, each once, in ascending order; with ids 5 and 7 the only
\* ones inserted under parent 3 the result is <<5, 7>>.
C10_ChildrenOf ==
    result.op = "get_children_of" =>
        /\ { result.value[i] : i \in 1..Len(result.value) } = ChildIds(result.arg)
        /\ \A i, j \in 1..Len(result.value) : i < j => result.value[i] < result.value[j]
        /\ (result.arg = 3 /\ ChildIds(3) = {5, 7}) => result.value = << 5, 7 >>

\* ids 5 and 7 were inserted under parent 3 and get_children_of(3) was asked
C10_Witness ==
    /\ result.op = "get_children_of"
    /\ result.arg = 3
    /\ Len(calls) >= 7
    /\ calls[5].op = "add_widget_to_parent"
    /\ calls[7].op = "add_widget_to_parent"
    /\ result.value = << 5, 7 >>

\* C11: every non-root widget's parent_id is the id of a widget of the store.
C11_ParentsExist ==
    \A i \in 2..Len(widgets) :
        widgets[i].parent_id >= 0 /\ widgets[i].parent_id < Len(widgets)

\* ---------------------------------------------------------------- redraw
AllIds(ws) == 0..(Len(ws) - 1)
AllDirty(ws) == invalidated_ids(ws) = AllIds(ws)

\* C12: a tick carrying a resize leaves every widget invalidated, the flags
\* stay as they are until a render pass, and so every widget is invalidated
\* when the draw of the same or of the next tick is called.
C12_ResizeInvalidatesAll ==
    [][ /\ (pc = "resize" /\ event'.resize) => AllDirty(widgets')
        /\ (pc \in {"next", "mouse_cursor", "mouse_scroll"}) => widgets' = widgets
        /\ (pc = "resize" /\ ~event'.resize) => widgets' = widgets
        /\ (pc = "render" /\ ~event'.render) => widgets' = widgets
        /\ (pc = "render" /\ event.resize /\ event'.render)
              => event'.dirty_at_draw = AllIds(widgets)
      ]_vars

\* a tick carried a resize and a render over a store with added widgets, and
\* every widget was invalidated when draw was called
C12_Witness ==
    /\ pc = "next"
    /\ event.resize
    /\ event.render
    /\ Len(widgets) >= 3
    /\ event.dirty_at_draw = AllIds(widgets)

\* C13: a render pass draws from root 0 and then invalidates every widget;
\* once every widget is invalidated inside the loop it stays so between the
\* passes, so every pass after the first starts with every widget invalidated.
C13_RenderLeavesAllDirty ==
    [][ /\ (pc = "render" /\ event'.render)
              => /\ AllDirty(widgets')
                 /\ event'.drawn = draw_set(widgets, 0)
        /\ (pc # "setup" /\ AllDirty(widgets)) => AllDirty(widgets')
        /\ (pc = "render" /\ event'.render /\ AllDirty(widgets))
              => event'.dirty_at_draw = AllIds(widgets)
      ]_vars

\* a tick without a resize rendered with every widget invalidated at draw
C13_Witness ==
    /\ pc = "next"
    /\ ~event.resize
    /\ event.render
    /\ Len(widgets) >= 3
    /\ event.dirty_at_draw = AllIds(widgets)
    /\ 0 \in event.drawn
    /\ AllDirty(widgets)

\* ---------------------------------------------------------------- dispatch
\* C14: every id handed to mouse_moved_for_id, mouse_entered_for_id,
\* mouse_exited_for_id and mouse_scrolled_for_id is an index of the store.
C14_IdsInRange ==
    \A i \in 1..Len(log) : log[i].id >= 0 /\ log[i].id < Len(widgets)

\* one tick dispatched all four callbacks
C14_Witness ==
    /\ pc = "next"
    /\ \A cb \in {"mouse_moved", "mouse_entered", "mouse_exited", "mouse_scrolled"} :
          CountOf(log, cb) = 1
    /\ \E i \in 1..Len(log) : log[i].id = Len(widgets) - 1

\* C15: a cursor-move to a point other than previous_mouse_position
\* dispatches mouse_moved_for_id(h, point) once when the hit test h is a
\* widget and not at all when h is -1, whether or not h is last_widget_id,
\* and before the exit / entry of a transition in the same tick.
C15_MovedFirst ==
    [][ ( /\ pc = "mouse_cursor"
          /\ event'.cursor # None
          /\ event'.cursor # Some(previous_mouse_position) )
        => LET point == event'.cursor[1]
               h == get_widget_id_for_point(widgets, point)
           IN  /\ h = -1 => CountOf(log', "mouse_moved") = 0
               /\ h # -1 => /\ CountOf(log', "mouse_moved") = 1
                             /\ log'[1] = mouse_moved_for_id(h, point)
               /\ h # last_widget_id =>
                     log' = (IF h # -1 THEN << mouse_moved_for_id(h, point) >> ELSE << >>)
                            \o EnterExit(log')
      ]_vars

\* a move inside the widget that already has the pointer: mouse_moved only
C15_Witness ==
    /\ pc = "mouse_scroll"
    /\ event.cursor # None
    /\ event.current_widget_id = Some(last_widget_id)
    /\ last_widget_id > 0
    /\ log = << mouse_moved_for_id(last_widget_id, event.cursor[1]) >>

\* C16: the closures run in the order cursor-move, scroll, resize, render:
\* a scroll in the tick whose cursor-move entered a widget goes to that
\* widget, after the entry, and a resize in the tick of a render has
\* invalidated every widget when draw is called.
C16_FixedOrder ==
    /\ \A i, j \in 1..Len(log) :
          (log[i].cb = "mouse_entered" /\ log[j].cb = "mouse_scrolled")
              => (i < j /\ log[j].id = log[i].id)
    /\ \A i, j \in 1..Len(log) :
          (log[i].cb = "mouse_exited" /\ log[j].cb = "mouse_scrolled")
              => (i < j /\ log[j].id = last_widget_id)
    /\ (event.resize /\ event.render) => event.dirty_at_draw = AllIds(widgets)

\* one tick moved the pointer onto another widget, scrolled, resized and
\* rendered; the scroll point lies over a different widget
C16_Witness ==
    /\ pc = "next"
    /\ event.resize
    /\ event.render
    /\ Len(log) = 4
    /\ log[2].cb = "mouse_exited"
    /\ log[3].cb = "mouse_entered"
    /\ log[4].cb = "mouse_scrolled"
    /\ log[4].id = log[3].id
    /\ get_widget_id_for_point(widgets, event.scroll[1]) # log[4].id

\* C17: get_children_of(0) holds exactly the widgets inserted with parent 0
\* and not the root id 0 itself.
C17_RootIsNotItsOwnChild ==
    (result.op = "get_children_of" /\ result.arg = 0) =>
        /\ \A i \in 1..Len(result.value) : result.value[i] # 0
        /\ { result.value[i] : i \in 1..Len(result.value) }
              = { k \in 1..Len(calls) : calls[k].parent_id = 0 }

\* C18: no step shortens the store or changes the widget_id or parent_id of a
\* container it holds; an insertion adds one container at the end, with
\* parent_id 0 for add_widget and the given parent_id for add_widget_to_parent.
C18_AppendOnly ==
    [][ /\ Len(widgets') >= Len(widgets)
        /\ \A i \in 1..Len(widgets) :
              /\ widgets'[i].widget_id = widgets[i].widget_id
              /\ widgets'[i].parent_id = widgets[i].parent_id
        /\ Len(widgets') > Len(widgets) =>
              /\ Len(widgets') = Len(widgets) + 1
              /\ Len(calls') = Len(calls) + 1
              /\ widgets'[Len(widgets')].parent_id = calls'[Len(calls')].parent_id
              /\ calls'[Len(calls')].op = "add_widget"
                    => widgets'[Len(widgets')].parent_id = 0
        /\ Len(widgets') = Len(widgets) => calls' = calls
      ]_vars

\* a store built with both insertions, one under the absent parent 9, has
\* gone through a tick with a resize and a render
C18_Witness ==
    /\ pc = "next"
    /\ event.resize
    /\ event.render
    /\ Len(widgets) = 3
    /\ calls[1].op = "add_widget_to_parent"
    /\ widgets[2].parent_id = 9
    /\ calls[2].op = "add_widget"
    /\ widgets[3].parent_id = 0

\* the exits of cbs go to hovered widgets and the entries to widgets not hovered
RECURSIVE Alternates(_, _)
Alternates(h, cbs) ==
    IF cbs = << >> THEN TRUE
    ELSE /\ Head(cbs).cb = "mouse_entered" => Head(cbs).id \notin h
         /\ Head(cbs).cb = "mouse_exited" => Head(cbs).id \in h
         /\ Alternates(hover_after(h, << Head(cbs) >>), Tail(cbs))

\* C19: for every widget the entries and exits alternate, starting with an
\* entry, and the widgets entered and not yet exited are {last_widget_id}, or
\* none when last_widget_id is -1.
C19_EnterExitPairing ==
    [][ /\ pc = "mouse_cursor" => Alternates(hovered, EnterExit(log'))
        /\ pc # "mouse_cursor" => hovered' = hovered
        /\ hovered' = (IF last_widget_id' = -1 THEN {} ELSE {last_widget_id'})
      ]_vars

\* the pointer left the last hovered widget for a point over no widget
C19_Witness ==
    /\ pc = "mouse_scroll"
    /\ last_widget_id = -1
    /\ hovered = {}
    /\ log # << >>
    /\ log[Len(log)].cb = "mouse_exited"

\* C20: after a tick that carried a cursor-move event, last_widget_id is the
\* hit test of that event's point, the first cursor-move of the session
\* included.
C20_PointerTracked ==
    event.cursor # None =>
        last_widget_id = get_widget_id_for_point(widgets, event.cursor[1])

\* C21: the scroll, resize and render closures never change last_widget_id
\* or previous_mouse_position; only a cursor-move to a point other than
\* previous_mouse_position changes them, and last_widget_id only when the hit
\* test differs from it; the cursor-move and scroll closures never invalidate
\* a widget.
C21_PointerFrame ==
    [][ /\ pc # "mouse_cursor" =>
              /\ last_widget_id' = last_widget_id
              /\ previous_mouse_position' = previous_mouse_position
        /\ ( /\ pc = "mouse_cursor"
             /\ \/ event'.cursor = None
                \/ event'.cursor = Some(previous_mouse_position) ) =>
              /\ last_widget_id' = last_widget_id
              /\ previous_mouse_position' = previous_mouse_position
        /\ (pc = "mouse_cursor" /\ last_widget_id' # last_widget_id) =>
              /\ event'.cursor # None
              /\ last_widget_id' = get_widget_id_for_point(widgets, event'.cursor[1])
        /\ (pc = "mouse_cursor" /\ event'.cursor # None) =>
              previous_mouse_position' = event'.cursor[1]
        /\ pc \in {"mouse_cursor", "mouse_scroll"} => widgets' = widgets
      ]_vars

\* a tick without a cursor-move scrolled, resized and rendered while the
\* pointer stayed on an added widget, away from the widget under the scroll point
C21_Witness ==
    /\ pc = "next"
    /\ event.cursor = None
    /\ event.scroll # None
    /\ event.resize
    /\ event.render
    /\ last_widget_id > 0
    /\ previous_mouse_position # make_origin_point
    /\ get_widget_id_for_point(widgets, event.scroll[1]) # last_widget_id
    /\ get_widget_id_for_point(widgets, previous_mouse_position) = last_widget_id

\* ---------------------------------------------------------------- termination
\* the closures that have run when the program is at pc
ClosuresBefore(p) ==
    IF p = "mouse_cursor" THEN << >>
    ELSE IF p = "mouse_scroll" THEN << "mouse_cursor" >>
    ELSE IF p = "resize" THEN << "mouse_cursor", "mouse_scroll" >>
    ELSE IF p = "render" THEN << "mouse_cursor", "mouse_scroll", "resize" >>
    ELSE << "mouse_cursor", "mouse_scroll", "resize", "render" >>

C22_OneAtATime ==
    /\ stream.pulled + stream.left = stream.total
    /\ pc = "setup" => stream.pulled = 0
    /\ pc \in {"next", "done"} =>
          /\ stream.handled = stream.pulled
          /\ stream.pulled > 0 => stream.closures = ClosuresBefore(pc)
    /\ pc \in {"mouse_cursor", "mouse_scroll", "resize", "render"} =>
          /\ stream.handled = stream.pulled - 1
          /\ stream.closures = ClosuresBefore(pc)
    /\ pc = "done" => (stream.left = 0 /\ stream.handled = stream.total)

\* C22: over a finite event stream the loop pulls the events one at a time,
\* runs the four closures once each for an event before it pulls the next, is
\* never re-entered from a closure, and ends when the source is exhausted,
\* having handled every event once.
C22_HandlesAllThenStops ==
    /\ []C22_OneAtATime
    /\ [][pc' = "mouse_cursor" => pc \in {"next", "mouse_cursor"}]_vars
    /\ <>(pc = "done")

\* the loop has ended after handling a stream of several events
C22_Witness ==
    /\ pc = "done"
    /\ stream.total >= 2
    /\ stream.handled = stream.total
    /\ stream.left = 0

TypeOK ==
    /\ pc \in {"setup", "next", "mouse_cursor", "mouse_scroll", "resize", "render", "done"}
    /\ last_widget_id \in -1..(Len(widgets) - 1)
    /\ Len(widgets) >= 1
====
